---- MODULE Spec2Model ----
(***************************************************************************)
(* Statement-level IR lowering of vyper/codegen/stmt.py as a state         *)
(* machine.  One behaviour is the lowering of one function body: the call  *)
(* stack of parse_body / Stmt frames, the mutable Context, and the IR      *)
(* returned so far.                                                        *)
(***************************************************************************)
EXTENDS Integers, Sequences, FiniteSets, TLC

VARIABLES
    code,               \* the statement list handed to the outermost parse_body
    ensure_terminated,  \* parse_body's ensure_terminated argument (outermost call)
    context,            \* the Context of the function being lowered
    entry,              \* the Context as it was when lowering started
    stack,              \* call stack: parse_body frames and Stmt frames
    ret,                \* IR node returned by the parse_body call that returned last
    fault               \* exception in flight ("none" when there is none)

vars == <<code, ensure_terminated, context, entry, stack, ret, fault>>

----------------------------------------------------------------------------
(* Bounds of the model *)

\* largest number of statement nodes in a generated function body
MaxNodes == 4

\* bits of a machine word (the target's words have 256)
WordBits == 3

\* range() endpoints and bound= values are drawn from -MaxConst..MaxConst
MaxConst == 2

\* largest static capacity of an iterated sequence
MaxCount == 2

----------------------------------------------------------------------------
(* IR nodes: IRnode.from_list(["op", arg, ...]) *)

IRnode(op, args) == [op |-> op, args |-> args]

IRint(n) == [op |-> "int", val |-> n]

NoIR == [op |-> "<none>"]

----------------------------------------------------------------------------
(* Types attached upstream (vyper.semantics.types) *)

IntT(signed, bits) ==
    [name |-> "int", _is_prim_word |-> TRUE, is_signed |-> signed, bits |-> bits]

BoolT == [name |-> "bool", _is_prim_word |-> TRUE, is_signed |-> FALSE, bits |-> 1]

NoneT == [name |-> "None"]

\* utils.ceil32: the lowest multiple of 32 >= x
ceil32(x) == IF x % 32 = 0 THEN x ELSE x + 32 - (x % 32)

\* String[maxlen]: a length word and the padded characters
StringT(maxlen) ==
    [name |-> "String", _is_prim_word |-> FALSE, maxlen |-> maxlen,
     memory_bytes_required |-> 32 + ceil32(maxlen)]

\* static array T[count] / DynArray[T, count]
SArrayT(value_type, count) ==
    [name |-> "SArray", _is_prim_word |-> FALSE, value_type |-> value_type, count |-> count]

DArrayT(value_type, count) ==
    [name |-> "DArray", _is_prim_word |-> FALSE, value_type |-> value_type, count |-> count]

----------------------------------------------------------------------------
(* AST nodes (vy_ast), as the type checker hands them over *)

NoneExpr == [node |-> "None"]

\* an expression whose lowering by Expr gives expression IR ir, or raises
ExprNode(node, id, raises, ir) == [node |-> node, id |-> id, raises |-> raises, ir |-> ir]

Pass == [kind |-> "Pass", is_terminus |-> FALSE]

Continue == [kind |-> "Continue", is_terminus |-> FALSE]

Break == [kind |-> "Break", is_terminus |-> FALSE]

Return(value) == [kind |-> "Return", is_terminus |-> TRUE, value |-> value]

Name(id) == [kind |-> "Name", is_terminus |-> FALSE, id |-> id]

\* a node type for which Stmt defines no parse_ method
Unhandled(kind) == [kind |-> kind, is_terminus |-> FALSE]

If(test, body, orelse) ==
    [kind |-> "If", is_terminus |-> FALSE, test |-> test, body |-> body, orelse |-> orelse]

\* an expression statement
ExprStmt(value, is_terminus) == [kind |-> "Expr", is_terminus |-> is_terminus, value |-> value]

\* log Event(args...): indexed[k] tells whether args[k] is a topic
Log(args, indexed) ==
    [kind |-> "Log", is_terminus |-> FALSE, args |-> args, indexed |-> indexed]

\* an assignment target: node is "Name", "Subscript", "Attribute" or "Tuple"
Target(node, id, ir) == [node |-> node, id |-> id, raises |-> FALSE, ir |-> ir]

AnnAssign(id, typ, value) ==
    [kind |-> "AnnAssign", is_terminus |-> FALSE, target |-> [id |-> id, type |-> typ],
     value |-> value]

Assign(target, value) ==
    [kind |-> "Assign", is_terminus |-> FALSE, target |-> target, value |-> value]

AugAssign(target, op, value) ==
    [kind |-> "AugAssign", is_terminus |-> FALSE, target |-> target, op |-> op,
     value |-> value]

AssertStmt(test, msg) == [kind |-> "Assert", is_terminus |-> FALSE, test |-> test, msg |-> msg]

RaiseStmt(exc) == [kind |-> "Raise", is_terminus |-> TRUE, exc |-> exc]

\* for <id>: <typ> in range(args..., bound=bound): body
ForRange(id, typ, args, bound, body) ==
    [kind |-> "For", is_terminus |-> FALSE, target |-> [id |-> id, type |-> typ],
     iter |-> [func |-> "range", args |-> args, bound |-> bound], body |-> body]

\* for <id>: <typ> in <value>: body
ForList(id, typ, value, body) ==
    [kind |-> "For", is_terminus |-> FALSE, target |-> [id |-> id, type |-> typ],
     iter |-> [func |-> "<none>", value |-> value], body |-> body]

----------------------------------------------------------------------------
(* Context (vyper.codegen.context): the operations stmt.py calls *)

\* Constancy.Mutable / Constancy.Constant
Constancies == {"Mutable", "Constant"}

NewContext(return_type, constancy) ==
    [ return_type |-> return_type,    \* NoneT when the function declares no return value
      constancy |-> constancy,        \* the constant-evaluation flag
      forvars |-> {},                 \* names of the loop variables of the enclosing loops
      vars |-> <<>>,                  \* name -> VariableRecord, in insertion order
      scopes |-> <<>>,                \* ids of the open scopes, innermost last
      scope_ctr |-> 0,                \* next scope id
      internal_ctr |-> 0,             \* next "#internal_<n>" name
      fresh_ctr |-> 0 ]               \* next fresh_varname suffix

VarName(id) == <<id, 0>>

\* with context.block_scope(): / with context.internal_memory_scope(): on entry
enter_scope(ctx) ==
    [ctx EXCEPT !.scopes = Append(@, ctx.scope_ctr), !.scope_ctr = @ + 1]

\* block_scope on exit: every variable declared in the scope is dropped
exit_block_scope(ctx) ==
    LET id == ctx.scopes[Len(ctx.scopes)]
        Keep(v) == id \notin v.blockscopes
    IN [ctx EXCEPT !.vars = SelectSeq(@, Keep),
                   !.scopes = SubSeq(@, 1, Len(@) - 1)]

\* internal_memory_scope on exit: the scope's internal variables are released
exit_internal_memory_scope(ctx) ==
    LET id == ctx.scopes[Len(ctx.scopes)]
        Keep(v) == ~(v.is_internal /\ id \in v.blockscopes)
    IN [ctx EXCEPT !.vars = SelectSeq(@, Keep),
                   !.scopes = SubSeq(@, 1, Len(@) - 1)]

\* self.vars[name] = VariableRecord(...): a binding of the same name is replaced
BindVar(ctx, name, typ, is_internal) ==
    LET Other(v) == v.name # name
        rec == [name |-> name, typ |-> typ, is_internal |-> is_internal,
                blockscopes |-> {ctx.scopes[k] : k \in 1..Len(ctx.scopes)}]
    IN [ctx EXCEPT !.vars = Append(SelectSeq(@, Other), rec)]

\* the location IR of a declared variable
VarPtr(name, typ) == [op |-> "var", name |-> name, typ |-> typ, is_pointer |-> TRUE]

new_variable(ctx, id, typ) == BindVar(ctx, VarName(id), typ, FALSE)

InternalName(ctx) == <<"#internal", ctx.internal_ctr>>

new_internal_variable(ctx, typ) ==
    [BindVar(ctx, InternalName(ctx), typ, TRUE) EXCEPT !.internal_ctr = @ + 1]

\* context.fresh_varname(prefix)
FreshName(ctx, prefix) == [op |-> prefix, n |-> ctx.fresh_ctr]

fresh_varname(ctx) == [ctx EXCEPT !.fresh_ctr = @ + 1]

----------------------------------------------------------------------------
(* Faults *)

\* compiler exceptions (vyper.exceptions): those stmt.py raises by name, and the
\* one expression lowering raises here
VyperExceptions ==
    {"StructureException", "TypeCheckFailure", "CodegenPanic", "StateAccessViolation"}

\* tag_exceptions(node, fallback_exception_type=CodegenPanic): a compiler
\* exception passes with its kind unchanged, any other becomes CodegenPanic
tag_exceptions(f) == IF f \in VyperExceptions \cup {"none"} THEN f ELSE "CodegenPanic"

\* what a handler hands back: an IR node, or a fault, and the Context it leaves
Returns(ir, ctx) == [ir |-> ir, fault |-> "none", ctx |-> ctx]

Raises(f, ctx) == [ir |-> NoIR, fault |-> f, ctx |-> ctx]

----------------------------------------------------------------------------
(* Collaborators: expression lowering, return construction *)

\* Expr(node, context).ir_node / Expr.parse_value_expr(node, context)
Expr(node, ctx) ==
    IF node.raises THEN Raises("StateAccessViolation", ctx) ELSE Returns(node.ir, ctx)

\* make_return_stmt(ir_val, stmt, context)
make_return_stmt(ir_val) == IRnode("exit_to", <<ir_val>>)

\* an integer literal of a type: IRnode.from_list(n, typ=typ)
Literal(n, typ) == [op |-> "int", val |-> n, typ |-> typ]

\* IRnode.is_complex_ir: a literal or a variable is not cached, a compound is
is_complex_ir(e) == "complex" \in DOMAIN e /\ e.complex

\* with e.cache_when_complex(name) as (b, e): the node the body refers to ...
cached(e, name) == IF is_complex_ir(e) THEN [op |-> "ref", id |-> name, typ |-> e.typ] ELSE e

\* ... and b.resolve(body)
resolve(e, name, body) ==
    IF is_complex_ir(e) THEN IRnode("with", <<cached(e, name), e, body>>) ELSE body

\* core.clamp_le(arg, hi, signed): arg, after a run-time check that arg <= hi
clamp_le(arg, hi, signed) ==
    [op |-> "clamp", cmp |-> IF signed THEN "sle" ELSE "le", args |-> <<arg, hi>>]

make_setter(left, right) == IRnode("make_setter", <<left, right>>)

get_element_ptr(parent, key) == IRnode("element_ptr", <<parent, key>>)

get_dyn_array_count(arg) == IRnode("dyn_array_count", <<arg>>)

\* a variable an expression refers to (VarInfo): its location decides
\* is_state_variable()
Variable(id, typ, location) == [name |-> VarName(id), typ |-> typ, location |-> location]

is_state_variable(var) == var.location = "storage"

\* core.writeable(context, ir_node)
writeable(ctx, ir) == ir.mutable

\* core.potential_overlap(left, right): single words never overlap; otherwise
\* the two sides may when they refer to a common variable
potential_overlap(left, right) ==
    /\ ~(left.typ._is_prim_word /\ right.typ._is_prim_word)
    /\ left.referenced_variables \cap right.referenced_variables # {}

\* events.ir_node_for_log(stmt, event, topic_ir, data_ir, context)
ir_node_for_log(topic_ir, data_ir) ==
    IRnode("log", <<IRnode("topics", topic_ir), IRnode("data", data_ir)>>)

\* Expr.handle_binop(op, left, right, context)
handle_binop(op, left, right) == IRnode(op, <<left, right>>)

LOAD(ptr) == IRnode("load", <<ptr>>)

STORE(ptr, val) == IRnode("store", <<ptr, val>>)

----------------------------------------------------------------------------
(* Stmt: the handlers that lower a statement in one step *)

parse_Pass(stmt, ctx) == Returns(IRnode("pass", <<>>), ctx)

parse_Continue(stmt, ctx) == Returns(IRnode("continue", <<>>), ctx)

parse_Break(stmt, ctx) == Returns(IRnode("break", <<>>), ctx)

parse_Name(stmt, ctx) ==
    IF stmt.id = "vdb"
    THEN Returns(IRnode("debugger", <<>>), ctx)
    ELSE Raises("StructureException", ctx)

parse_Return(stmt, ctx) ==
    IF stmt.value.node # "None"
    THEN LET v == Expr(stmt.value, ctx)
         IN IF v.fault # "none" THEN v ELSE Returns(make_return_stmt(v.ir), ctx)
    ELSE Returns(make_return_stmt(NoIR), ctx)

parse_Expr(stmt, ctx) == Expr(stmt.value, ctx)

parse_Log(stmt, ctx) ==
    LET n == Len(stmt.args)
        Topic(k) == stmt.indexed[k]
        Data(k) == ~stmt.indexed[k]
        Lowered(Pick(_)) ==
            LET ks == SelectSeq([k \in 1..n |-> k], Pick)
            IN [j \in 1..Len(ks) |-> stmt.args[ks[j]].ir]
    IN IF \E k \in 1..n : stmt.args[k].raises
       THEN Raises("StateAccessViolation", ctx)
       ELSE Returns(ir_node_for_log(Lowered(Topic), Lowered(Data)), ctx)

\* _get_target without the test for loop variables
_get_target_loop_variable_writable(target, ctx) ==
    IF target.node = "Tuple"
    THEN IF \E k \in 1..Len(target.ir.args) : ~writeable(ctx, target.ir.args[k])
         THEN Raises("TypeCheckFailure", ctx)
         ELSE Returns(target.ir, ctx)
    ELSE IF target.raises
    THEN Raises("StateAccessViolation", ctx)
    ELSE IF ~writeable(ctx, target.ir)
    THEN Raises("TypeCheckFailure", ctx)
    ELSE Returns(target.ir, ctx)

\* _get_target(target): the location to write to, or a fault
_get_target(target, ctx) ==
    IF target.node = "Name" /\ target.id \in ctx.forvars
    THEN Raises("TypeCheckFailure", ctx)
    ELSE IF target.node = "Tuple"
    THEN IF \E k \in 1..Len(target.ir.args) : ~writeable(ctx, target.ir.args[k])
         THEN Raises("TypeCheckFailure", ctx)
         ELSE Returns(target.ir, ctx)
    ELSE IF target.raises
    THEN Raises("StateAccessViolation", ctx)
    ELSE IF ~writeable(ctx, target.ir)
    THEN Raises("TypeCheckFailure", ctx)
    ELSE Returns(target.ir, ctx)

\* parse_AnnAssign with parse_Assign's staging when the value refers to the
\* variable being declared
parse_AnnAssign_staged(stmt, ctx) ==
    LET ltyp == stmt.target.type
        varname == stmt.target.id
        c1 == new_variable(ctx, varname, ltyp)
        lhs == VarPtr(VarName(varname), ltyp)
        rhs == Expr(stmt.value, c1)
        tmp == VarPtr(InternalName(c1), ltyp)
    IN IF stmt.value.node = "None" THEN Raises("AssertionError", c1)
       ELSE IF rhs.fault # "none" THEN rhs
       ELSE IF /\ ~ltyp._is_prim_word
               /\ "referenced_variables" \in DOMAIN rhs.ir
               /\ [name |-> VarName(varname), typ |-> ltyp, location |-> "memory"]
                      \in rhs.ir.referenced_variables
       THEN Returns(IRnode("seq", <<make_setter(tmp, rhs.ir), make_setter(lhs, tmp)>>),
                    new_internal_variable(c1, ltyp))
       ELSE Returns(make_setter(lhs, rhs.ir), c1)

parse_AnnAssign(stmt, ctx) ==
    LET ltyp == stmt.target.type
        varname == stmt.target.id
        c1 == new_variable(ctx, varname, ltyp)
        lhs == VarPtr(VarName(varname), ltyp)
        rhs == Expr(stmt.value, c1)
    IN IF stmt.value.node = "None" THEN Raises("AssertionError", c1)
       ELSE IF rhs.fault # "none" THEN rhs
       ELSE Returns(make_setter(lhs, rhs.ir), c1)

\* parse_Assign without the staging through a temporary
parse_Assign_unstaged(stmt, ctx) ==
    LET src == Expr(stmt.value, ctx)
        dst == _get_target(stmt.target, ctx)
    IN IF src.fault # "none" THEN src
       ELSE IF dst.fault # "none" THEN dst
       ELSE Returns(IRnode("seq", <<make_setter(dst.ir, src.ir)>>), ctx)

parse_Assign(stmt, ctx) ==
    LET src == Expr(stmt.value, ctx)
        dst == _get_target(stmt.target, ctx)
        tmp == VarPtr(InternalName(ctx), src.ir.typ)
    IN IF src.fault # "none" THEN src
       ELSE IF dst.fault # "none" THEN dst
       ELSE IF potential_overlap(dst.ir, src.ir)
       THEN Returns(IRnode("seq", <<make_setter(tmp, src.ir), make_setter(dst.ir, tmp)>>),
                    new_internal_variable(ctx, src.ir.typ))
       ELSE Returns(IRnode("seq", <<make_setter(dst.ir, src.ir)>>), ctx)

\* the loop over target.referenced_variables of parse_AugAssign: some variable
\* that is no single word is written by the right side, or is a state variable
\* while the right side contains a call that may write
\* aliased without the skip of single-word variables
aliased_words_too(target, right) ==
    \E var \in target.referenced_variables :
        \/ var \in right.variable_writes
        \/ is_state_variable(var) /\ right.contains_writeable_call

aliased(target, right) ==
    \E var \in target.referenced_variables :
        /\ ~var.typ._is_prim_word
        /\ \/ var \in right.variable_writes
           \/ is_state_variable(var) /\ right.contains_writeable_call

parse_AugAssign(stmt, ctx) ==
    LET target == _get_target(stmt.target, ctx)
        right == Expr(stmt.value, ctx)
        loc == cached(target.ir, "_loc")
        left == [op |-> "load", args |-> <<loc>>, typ |-> target.ir.typ]
        new_val == handle_binop(stmt.op, left, right.ir)
    IN IF target.fault # "none" THEN target
       ELSE IF right.fault # "none" THEN right
       ELSE IF ~target.ir.typ._is_prim_word THEN Raises("TypeCheckFailure", ctx)
       ELSE IF aliased(target.ir, right.ir) THEN Raises("CodegenPanic", ctx)
       ELSE Returns(resolve(target.ir, "_loc", STORE(loc, new_val)), ctx)

\* the message is the name UNREACHABLE
is_unreachable(msg) == msg.node = "Name" /\ msg.id = "UNREACHABLE"

\* _assert_reason_unreachable with an ordinary revert for raise UNREACHABLE
_assert_reason_unreachable_reverts(test_expr, is_raise) ==
    IF is_raise THEN IRnode("revert", <<IRint(0), IRint(0)>>)
    ELSE IRnode("assert_unreachable", <<test_expr>>)

\* _assert_reason for the UNREACHABLE message: lines 118-124
_assert_reason_unreachable(test_expr, is_raise) ==
    IF is_raise THEN IRnode("invalid", <<>>) ELSE IRnode("assert_unreachable", <<test_expr>>)

\* parse_Assert without a message, or with UNREACHABLE
parse_Assert(stmt, ctx) ==
    LET test_expr == Expr(stmt.test, ctx)
    IN IF test_expr.fault # "none" THEN test_expr
       ELSE IF stmt.msg.node # "None"
       THEN Returns(_assert_reason_unreachable(test_expr.ir, FALSE), ctx)
       ELSE Returns(IRnode("assert", <<test_expr.ir>>), ctx)

\* parse_Raise without an exception, or with UNREACHABLE
parse_Raise(stmt, ctx) ==
    IF stmt.exc.node # "None"
    THEN Returns(_assert_reason_unreachable(NoIR, TRUE), ctx)
    ELSE Returns(IRnode("revert", <<IRint(0), IRint(0)>>), ctx)

\* util.method_id_int("Error(string)"): the selector 0x08c379a0
method_id_Error_string == 147028384

\* core.wrap_value_for_external_return(ir): the value as a one-member tuple
wrap_value_for_external_return(ir) ==
    [op |-> "multi", args |-> <<ir>>,
     typ |-> [name |-> "Tuple", _is_prim_word |-> FALSE,
              memory_bytes_required |-> ir.typ.memory_bytes_required]]

\* core.get_type_for_exact_size(n_bytes)
get_type_for_exact_size(n) ==
    [name |-> "Bytes", _is_prim_word |-> FALSE, memory_bytes_required |-> n]

\* core.add_ofst(ptr, ofst)
add_ofst(ptr, ofst) == IRnode("add", <<ptr, IRint(ofst)>>)

\* abi_encode(dst, ir_node, context, bufsz, returns_len=True): IR that encodes
\* ir_node at dst and leaves the encoded length
abi_encode(dst, ir, bufsz) ==
    [op |-> "abi_encode", args |-> <<dst, ir>>, bufsz |-> bufsz, complex |-> TRUE,
     typ |-> [name |-> "int", _is_prim_word |-> TRUE, is_signed |-> FALSE, bits |-> 256]]

\* _assert_reason, lines 127-132: the message lowered with constancy forced
\* (the caller has saved it in tmp and set Constant), restored in the finally
\* _assert_reason_msg without the finally: constancy is restored only when
\* the message lowers
_assert_reason_msg_no_finally(msg, tmp, ctx) ==
    LET r == Expr(msg, ctx)
    IN IF r.fault # "none" THEN r ELSE [r EXCEPT !.ctx = [r.ctx EXCEPT !.constancy = tmp]]

_assert_reason_msg(msg, tmp, ctx) ==
    LET r == Expr(msg, ctx)
    IN [r EXCEPT !.ctx = [r.ctx EXCEPT !.constancy = tmp]]

\* _assert_reason_encode without `bufsz -= 32`: the encoder is given the whole
\* buffer as budget
_assert_reason_encode_full_budget(test_expr, msg_ir0, is_raise, ctx) ==
    LET msg_ir == wrap_value_for_external_return(msg_ir0)
        bufsz == 64 + msg_ir.typ.memory_bytes_required
        buf == VarPtr(InternalName(ctx), get_type_for_exact_size(bufsz))
        payload_buf == add_ofst(buf, 32)
        encoded_length == abi_encode(payload_buf, msg_ir, bufsz)
        revert_seq ==
            resolve(encoded_length, "encoded_len",
                IRnode("seq",
                    <<IRnode("mstore", <<buf, IRint(method_id_Error_string)>>),
                      IRnode("revert", <<add_ofst(buf, 28),
                                         IRnode("add", <<IRint(4),
                                                cached(encoded_length, "encoded_len")>>)>>)>>))
        ir_node == IF is_raise THEN revert_seq
                   ELSE IRnode("if", <<IRnode("iszero", <<test_expr>>), revert_seq>>)
    IN Returns(ir_node, new_internal_variable(ctx, get_type_for_exact_size(bufsz)))

\* _assert_reason, lines 134-158: the revert with the encoded reason
_assert_reason_encode(test_expr, msg_ir0, is_raise, ctx) ==
    LET msg_ir == wrap_value_for_external_return(msg_ir0)
        bufsz == 64 + msg_ir.typ.memory_bytes_required
        buf == VarPtr(InternalName(ctx), get_type_for_exact_size(bufsz))
        payload_buf == add_ofst(buf, 32)
        encoded_length == abi_encode(payload_buf, msg_ir, bufsz - 32)
        revert_seq ==
            resolve(encoded_length, "encoded_len",
                IRnode("seq",
                    <<IRnode("mstore", <<buf, IRint(method_id_Error_string)>>),
                      IRnode("revert", <<add_ofst(buf, 28),
                                         IRnode("add", <<IRint(4),
                                                cached(encoded_length, "encoded_len")>>)>>)>>))
        ir_node == IF is_raise THEN revert_seq
                   ELSE IRnode("if", <<IRnode("iszero", <<test_expr>>), revert_seq>>)
    IN Returns(ir_node, new_internal_variable(ctx, get_type_for_exact_size(bufsz)))

\* the statement kinds Stmt has a parse_<kind> method for
Handlers ==
    {"Expr", "Pass", "Name", "AnnAssign", "Assign", "If", "Log", "Assert", "Raise",
     "For", "AugAssign", "Continue", "Break", "Return"}

\* fn = getattr(self, fn_name); self.ir_node = fn()
Dispatch(stmt, ctx) ==
    CASE stmt.kind = "Pass" -> parse_Pass(stmt, ctx)
      [] stmt.kind = "Continue" -> parse_Continue(stmt, ctx)
      [] stmt.kind = "Break" -> parse_Break(stmt, ctx)
      [] stmt.kind = "Name" -> parse_Name(stmt, ctx)
      [] stmt.kind = "Return" -> parse_Return(stmt, ctx)
      [] stmt.kind = "Expr" -> parse_Expr(stmt, ctx)
      [] stmt.kind = "Log" -> parse_Log(stmt, ctx)
      [] stmt.kind = "AnnAssign" -> parse_AnnAssign(stmt, ctx)
      [] stmt.kind = "Assign" -> parse_Assign(stmt, ctx)
      [] stmt.kind = "AugAssign" -> parse_AugAssign(stmt, ctx)
      [] stmt.kind = "Assert" -> parse_Assert(stmt, ctx)
      [] stmt.kind = "Raise" -> parse_Raise(stmt, ctx)
      [] OTHER -> Raises("AttributeError", ctx)

\* Stmt without the internal_memory_scope around the handler
Stmt_without_memory_scope(stmt, ctx) ==
    LET r == Dispatch(stmt, ctx)
    IN IF stmt.kind \notin Handlers
       THEN Raises(tag_exceptions("AttributeError"), ctx)
       ELSE [ir |-> r.ir, fault |-> tag_exceptions(r.fault), ctx |-> r.ctx]

\* Stmt.__init__ for a statement whose handler lowers no nested body
Stmt(stmt, ctx) ==
    LET r == Dispatch(stmt, enter_scope(ctx))
    IN IF stmt.kind \notin Handlers
       THEN Raises(tag_exceptions("AttributeError"), ctx)
       ELSE [ir |-> r.ir, fault |-> tag_exceptions(r.fault),
             ctx |-> exit_internal_memory_scope(r.ctx)]

----------------------------------------------------------------------------
(* parse_body and _is_terminated *)

RECURSIVE _is_terminated_else_optional(_)
\* _is_terminated taking an if without else for terminated when its body is
_is_terminated_else_optional(c) ==
    LET last_stmt == c[Len(c)]
    IN IF last_stmt.is_terminus THEN TRUE
       ELSE IF last_stmt.kind = "If"
       THEN /\ _is_terminated_else_optional(last_stmt.body)
            /\ last_stmt.orelse # <<>> => _is_terminated_else_optional(last_stmt.orelse)
       ELSE FALSE

RECURSIVE _is_terminated(_)
\* code is not empty: code[-1] of an empty list raises IndexError (see parse_body_tail)
_is_terminated(c) ==
    LET last_stmt == c[Len(c)]
    IN IF last_stmt.is_terminus THEN TRUE
       ELSE IF last_stmt.kind = "If" /\ last_stmt.orelse # <<>>
            THEN _is_terminated(last_stmt.body) /\ _is_terminated(last_stmt.orelse)
            ELSE FALSE

\* parse_body_tail with the termination test left out: a return is injected
\* after a terminated body too
parse_body_tail_always_returns(c, ir_node, ensure, ctx) ==
    IF ensure /\ ctx.return_type = NoneT
    THEN Returns(IRnode("seq", Append(Append(ir_node, Stmt(Return(NoneExpr), ctx).ir),
                                      IRnode("pass", <<>>))), ctx)
    ELSE Returns(IRnode("seq", Append(ir_node, IRnode("pass", <<>>))), ctx)

\* parse_body_tail without the closing "pass" when no return is injected
parse_body_tail_no_pass(c, ir_node, ensure, ctx) ==
    IF ensure /\ ctx.return_type = NoneT /\ c = <<>>
    THEN Raises("IndexError", ctx)
    ELSE IF ensure /\ ctx.return_type = NoneT /\ ~_is_terminated(c)
         THEN Returns(IRnode("seq", Append(Append(ir_node, Stmt(Return(NoneExpr), ctx).ir),
                                           IRnode("pass", <<>>))), ctx)
         ELSE Returns(IRnode("seq", ir_node), ctx)

\* parse_body after its loop: ir_node holds "seq" and the statements' IR
parse_body_tail(c, ir_node, ensure, ctx) ==
    IF ensure /\ ctx.return_type = NoneT /\ c = <<>>
    THEN Raises("IndexError", ctx)
    ELSE IF ensure /\ ctx.return_type = NoneT /\ ~_is_terminated(c)
         THEN LET r == Stmt(Return(NoneExpr), ctx)
              IN IF r.fault # "none" THEN r
                 ELSE Returns(IRnode("seq", Append(Append(ir_node, r.ir), IRnode("pass", <<>>))),
                              r.ctx)
         ELSE Returns(IRnode("seq", Append(ir_node, IRnode("pass", <<>>))), ctx)

----------------------------------------------------------------------------
(* The call stack *)

\* a running parse_body(code, context, ensure_terminated): i is the index of the
\* next statement of the for loop, ir_node the list built so far (without "seq")
BodyFrame(c, ensure) ==
    [fn |-> "parse_body", code |-> c, i |-> 1, ir_node |-> <<>>, ensure_terminated |-> ensure]

\* a running Stmt.__init__ whose handler is waiting at pc for a nested call
StmtFrame(stmt, pc, saved) == [fn |-> "Stmt", stmt |-> stmt, pc |-> pc, saved |-> saved]

Top == stack[Len(stack)]

Pop(stk) == SubSeq(stk, 1, Len(stk) - 1)

Running == fault = "none" /\ stack # <<>>

\* parse_body is about to lower its next statement
AtStmt == Running /\ Top.fn = "parse_body" /\ Top.i <= Len(Top.code)

NextStmt == Top.code[Top.i]

\* ir_node.append(ir) in the parse_body frame on top of stk
AppendIR(stk, ir) ==
    [stk EXCEPT ![Len(stk)] = [@ EXCEPT !.ir_node = Append(@, ir), !.i = @ + 1]]

\* an assert or a raise whose message goes through the ABI encoder
HasReason(stmt) ==
    \/ stmt.kind = "Assert" /\ stmt.msg.node # "None" /\ ~is_unreachable(stmt.msg)
    \/ stmt.kind = "Raise" /\ stmt.exc.node # "None" /\ ~is_unreachable(stmt.exc)

\* a statement whose handler runs as one step
IsSimple(stmt) == stmt.kind \notin {"If", "For"} /\ ~HasReason(stmt)

----------------------------------------------------------------------------
(* Actions *)

\* parse_body: ir = parse_stmt(stmt, context); ir_node.append(ir)
parse_stmt ==
    /\ AtStmt
    /\ IsSimple(NextStmt)
    /\ LET r == Stmt(NextStmt, context)
       IN /\ context' = r.ctx
          /\ fault' = r.fault
          /\ stack' = IF r.fault = "none" THEN AppendIR(stack, r.ir) ELSE stack
    /\ UNCHANGED <<code, ensure_terminated, entry, ret>>

\* parse_body: the loop is over; inject the return, append "pass", return
parse_body_return ==
    /\ Running
    /\ Top.fn = "parse_body"
    /\ Top.i > Len(Top.code)
    /\ LET r == parse_body_tail(Top.code, Top.ir_node, Top.ensure_terminated, context)
       IN /\ context' = r.ctx
          /\ fault' = r.fault
          /\ ret' = IF r.fault = "none" THEN r.ir ELSE ret
          /\ stack' = IF r.fault = "none" THEN Pop(stack) ELSE stack
    /\ UNCHANGED <<code, ensure_terminated, entry>>

\* Stmt.__init__ and parse_If up to the call of parse_body(self.stmt.body)
parse_If_enter ==
    /\ AtStmt
    /\ NextStmt.kind = "If"
    /\ LET c1 == enter_scope(context)          \* internal_memory_scope
           c2 == enter_scope(c1)               \* block_scope
           t == Expr(NextStmt.test, c2)
       IN IF t.fault # "none"
          THEN /\ fault' = t.fault
               /\ context' = t.ctx
               /\ stack' = Append(stack, StmtFrame(NextStmt, "test", <<>>))
          ELSE /\ fault' = fault
               /\ context' = t.ctx
               /\ stack' = stack \o <<StmtFrame(NextStmt, "body", [test_expr |-> t.ir]),
                                      BodyFrame(NextStmt.body, FALSE)>>
    /\ UNCHANGED <<code, ensure_terminated, entry, ret>>

\* parse_If_body with both branches under the one block scope
parse_If_body_shared_scope ==
    /\ Running
    /\ Top.fn = "Stmt" /\ Top.stmt.kind = "If" /\ Top.pc = "body"
    /\ IF Top.stmt.orelse # <<>>
       THEN /\ context' = context
            /\ stack' = Pop(stack) \o
                 <<StmtFrame(Top.stmt, "orelse", [test_expr |-> Top.saved.test_expr, body |-> ret]),
                   BodyFrame(Top.stmt.orelse, FALSE)>>
       ELSE /\ context' = exit_internal_memory_scope(exit_block_scope(context))
            /\ stack' = AppendIR(Pop(stack), IRnode("if", <<Top.saved.test_expr, ret>>))
    /\ UNCHANGED <<code, ensure_terminated, entry, ret, fault>>

\* parse_If once the then-branch is lowered: leave its block scope, then either
\* enter the else-branch or return ["if", test, body]
parse_If_body ==
    /\ Running
    /\ Top.fn = "Stmt" /\ Top.stmt.kind = "If" /\ Top.pc = "body"
    /\ LET c1 == exit_block_scope(context)
       IN IF Top.stmt.orelse # <<>>
          THEN /\ context' = enter_scope(c1)
               /\ stack' = Pop(stack) \o
                    <<StmtFrame(Top.stmt, "orelse", [test_expr |-> Top.saved.test_expr, body |-> ret]),
                      BodyFrame(Top.stmt.orelse, FALSE)>>
          ELSE /\ context' = exit_internal_memory_scope(c1)
               /\ stack' = AppendIR(Pop(stack), IRnode("if", <<Top.saved.test_expr, ret>>))
    /\ UNCHANGED <<code, ensure_terminated, entry, ret, fault>>

\* parse_If once the else-branch is lowered
parse_If_orelse ==
    /\ Running
    /\ Top.fn = "Stmt" /\ Top.stmt.kind = "If" /\ Top.pc = "orelse"
    /\ context' = exit_internal_memory_scope(exit_block_scope(context))
    /\ stack' = AppendIR(Pop(stack), IRnode("if", <<Top.saved.test_expr, Top.saved.body, ret>>))
    /\ UNCHANGED <<code, ensure_terminated, entry, ret, fault>>

\* Stmt.__init__, parse_Assert or parse_Raise, and _assert_reason up to the
\* lowering of the message: constancy is saved and forced to Constant
assert_reason_enter ==
    /\ AtStmt
    /\ HasReason(NextStmt)
    /\ LET c1 == enter_scope(context)          \* internal_memory_scope
           is_raise == NextStmt.kind = "Raise"
           t == IF is_raise THEN Returns(NoIR, c1) ELSE Expr(NextStmt.test, c1)
       IN IF t.fault # "none"
          THEN /\ fault' = t.fault
               /\ context' = t.ctx
               /\ stack' = Append(stack, StmtFrame(NextStmt, "test", <<>>))
          ELSE /\ fault' = fault
               /\ context' = [t.ctx EXCEPT !.constancy = "Constant"]
               /\ stack' = Append(stack, StmtFrame(NextStmt, "msg",
                                [tmp |-> t.ctx.constancy, test_expr |-> t.ir]))
    /\ UNCHANGED <<code, ensure_terminated, entry, ret>>

\* _assert_reason from the lowering of the message to its return
assert_reason_return ==
    /\ Running
    /\ Top.fn = "Stmt" /\ Top.pc = "msg"
    /\ LET is_raise == Top.stmt.kind = "Raise"
           msg == IF is_raise THEN Top.stmt.exc ELSE Top.stmt.msg
           m == _assert_reason_msg(msg, Top.saved.tmp, context)
           r == _assert_reason_encode(Top.saved.test_expr, m.ir, is_raise, m.ctx)
       IN IF m.fault # "none"
          THEN /\ fault' = m.fault
               /\ context' = m.ctx
               /\ stack' = [stack EXCEPT ![Len(stack)].pc = "raised"]
          ELSE /\ fault' = fault
               /\ context' = exit_internal_memory_scope(r.ctx)
               /\ stack' = AppendIR(Pop(stack), r.ir)
    /\ UNCHANGED <<code, ensure_terminated, entry, ret>>

----------------------------------------------------------------------------
(* Loops *)

\* rounds of the exact form: end.int_value() - start.int_value()
exact_rounds(start, end) == end.val - start.val

\* bounded_rounds with the start clamped by an unsigned comparison whatever
\* the type
bounded_rounds_unsigned_clamp(start, end, target_type) ==
    LET e == cached(end, "end")
        clamped_start == clamp_le(start, e, FALSE)
    IN resolve(end, "end", IRnode("sub", <<e, clamped_start>>))

\* rounds of the bounded form: end - clamped_start, end cached when complex
bounded_rounds(start, end, target_type) ==
    LET e == cached(end, "end")
        clamped_start == clamp_le(start, e, target_type.is_signed)
    IN resolve(end, "end", IRnode("sub", <<e, clamped_start>>))

\* the bound check off by one: a bound of 0 passes
unchecked_bound_negative_only(rounds_bound) == rounds_bound < 0

\* rounds_bound < 1
unchecked_bound(rounds_bound) == rounds_bound < 1

\* _parse_For_range up to the call of parse_body: lines 182-226.  A fault, or
\* the Context with the loop variable declared and registered and what the
\* rest of the handler needs
_parse_For_range_head(stmt, ctx) ==
    LET target_type == stmt.target.type
        range_call == stmt.iter
        n == Len(range_call.args)
        raising == {k \in 1..n : range_call.args[k].raises}
        argstart == IF n = 1 THEN Literal(0, target_type) ELSE range_call.args[1].ir
        end == range_call.args[n].ir
        has_bound == range_call.bound.node # "None"
        start == cached(argstart, "start")
        rounds == IF has_bound THEN bounded_rounds(start, end, target_type)
                  ELSE IRint(exact_rounds(start, end))
        rounds_bound == IF has_bound THEN range_call.bound.ir.val ELSE exact_rounds(start, end)
        varname == stmt.target.id
        i == FreshName(ctx, "range_ix")
        c1 == new_variable(fresh_varname(ctx), varname, target_type)
        c2 == [c1 EXCEPT !.forvars = @ \cup {varname}]
    IN IF raising # {} \/ (has_bound /\ range_call.bound.raises)
       THEN Raises("StateAccessViolation", ctx)
       ELSE IF ~(argstart.typ = end.typ /\ end.typ = target_type)
       THEN Raises("AssertionError", ctx)
       ELSE IF unchecked_bound(rounds_bound)
       THEN Raises("TypeCheckFailure", ctx)
       ELSE [ir |-> NoIR, fault |-> "none", ctx |-> c2,
             saved |-> [i |-> i, argstart |-> argstart, start |-> start, rounds |-> rounds,
                        rounds_bound |-> rounds_bound,
                        iptr |-> VarPtr(VarName(varname), target_type)]]

\* _parse_For_range after parse_body: lines 233-241
_parse_For_range_tail(stmt, saved, body, ctx) ==
    LET varname == stmt.target.id
        loop_body == IRnode("seq", <<IRnode("mstore", <<saved.iptr, saved.i>>), body>>)
        loop == IRnode("repeat", <<saved.i, saved.start, saved.rounds,
                                   IRint(saved.rounds_bound), loop_body>>)
    IN IF varname \notin ctx.forvars
       THEN Raises("KeyError", ctx)
       ELSE Returns(resolve(saved.argstart, "start", loop),
                    [ctx EXCEPT !.forvars = @ \ {varname}])

\* _parse_For_list up to the call of parse_body: lines 244-269
_parse_For_list_head(stmt, ctx) ==
    LET it == Expr(stmt.iter.value, ctx)
        target_type == stmt.target.type
        varname == stmt.target.id
        c1 == new_variable(ctx, varname, target_type)
        loop_var == VarPtr(VarName(varname), target_type)
        i == FreshName(c1, "for_list_ix")
        c2 == [fresh_varname(c1) EXCEPT !.forvars = @ \cup {varname}]
        copied == ~it.ir.is_pointer
        tmp_list == VarPtr(InternalName(c2), it.ir.typ)
        c3 == IF copied THEN new_internal_variable(c2, it.ir.typ) ELSE c2
        list0 == IF copied THEN tmp_list ELSE it.ir
        iter_list == cached(list0, "list_iter")
    IN IF it.fault # "none" THEN it
       ELSE IF target_type # it.ir.typ.value_type
       THEN Raises("AssertionError", ctx)
       ELSE [ir |-> NoIR, fault |-> "none", ctx |-> c3,
             saved |-> [i |-> i, list0 |-> list0, iter_list |-> iter_list,
                        ret |-> IF copied THEN <<make_setter(tmp_list, it.ir)>> ELSE <<>>,
                        set_loop_var |-> make_setter(loop_var, get_element_ptr(iter_list, i))]]

\* _parse_For_list_tail with the static capacity as round count whatever the
\* iterable
_parse_For_list_tail_static_len(stmt, saved, body, ctx) ==
    LET varname == stmt.target.id
        repeat_bound == saved.iter_list.typ.count
        loop == IRnode("repeat", <<saved.i, IRint(0), IRint(repeat_bound), IRint(repeat_bound),
                                   IRnode("seq", <<saved.set_loop_var, body>>)>>)
    IN IF varname \notin ctx.forvars
       THEN Raises("KeyError", ctx)
       ELSE Returns(resolve(saved.list0, "list_iter", IRnode("seq", Append(saved.ret, loop))),
                    [ctx EXCEPT !.forvars = @ \ {varname}])

\* _parse_For_list after parse_body: lines 271-280
_parse_For_list_tail(stmt, saved, body, ctx) ==
    LET varname == stmt.target.id
        typ == saved.iter_list.typ
        repeat_bound == typ.count
        array_len == IF typ.name = "DArray" THEN get_dyn_array_count(saved.iter_list)
                     ELSE IRint(repeat_bound)
        loop == IRnode("repeat", <<saved.i, IRint(0), array_len, IRint(repeat_bound),
                                   IRnode("seq", <<saved.set_loop_var, body>>)>>)
    IN IF varname \notin ctx.forvars
       THEN Raises("KeyError", ctx)
       ELSE Returns(resolve(saved.list0, "list_iter", IRnode("seq", Append(saved.ret, loop))),
                    [ctx EXCEPT !.forvars = @ \ {varname}])

\* Stmt.__init__, parse_For and the loop handler up to the call of parse_body
parse_For_enter ==
    /\ AtStmt
    /\ NextStmt.kind = "For"
    /\ LET c0 == enter_scope(enter_scope(context))   \* internal_memory_scope, block_scope
           r == IF NextStmt.iter.func = "range"
                THEN _parse_For_range_head(NextStmt, c0)
                ELSE _parse_For_list_head(NextStmt, c0)
       IN /\ context' = r.ctx
          /\ fault' = r.fault
          /\ stack' = IF r.fault # "none"
                      THEN Append(stack, StmtFrame(NextStmt, "head", <<>>))
                      ELSE stack \o <<StmtFrame(NextStmt, "loop", r.saved),
                                      BodyFrame(NextStmt.body, FALSE)>>
    /\ UNCHANGED <<code, ensure_terminated, entry, ret>>

\* the loop handler once the body is lowered, then parse_For and Stmt.__init__
parse_For_return ==
    /\ Running
    /\ Top.fn = "Stmt" /\ Top.stmt.kind = "For" /\ Top.pc = "loop"
    /\ LET r == IF Top.stmt.iter.func = "range"
                THEN _parse_For_range_tail(Top.stmt, Top.saved, ret, context)
                ELSE _parse_For_list_tail(Top.stmt, Top.saved, ret, context)
       IN IF r.fault # "none"
          THEN /\ fault' = r.fault
               /\ context' = r.ctx
               /\ stack' = stack
          ELSE /\ fault' = fault
               /\ context' = exit_internal_memory_scope(exit_block_scope(r.ctx))
               /\ stack' = AppendIR(Pop(stack), r.ir)
    /\ UNCHANGED <<code, ensure_terminated, entry, ret>>

\* the scopes a Stmt frame waiting at pc has open, closed as the fault passes
Release(frame, ctx) ==
    IF frame.fn # "Stmt" THEN ctx
    ELSE IF frame.stmt.kind \in {"If", "For"}
    THEN exit_internal_memory_scope(exit_block_scope(ctx))
    ELSE exit_internal_memory_scope(ctx)

\* a fault leaves the frame on top: with-blocks release, tag_exceptions tags
propagate ==
    /\ fault # "none"
    /\ stack # <<>>
    /\ context' = Release(Top, context)
    /\ fault' = IF Top.fn = "Stmt" THEN tag_exceptions(fault) ELSE fault
    /\ stack' = Pop(stack)
    /\ UNCHANGED <<code, ensure_terminated, entry, ret>>

----------------------------------------------------------------------------
(* Inputs *)

TestExpr == ExprNode("Name", "c", FALSE, [op |-> "expr", id |-> "c", typ |-> BoolT])

RECURSIVE BodiesOfSize(_, _, _, _)
RECURSIVE StmtsOfSize(_, _, _, _)
\* the statements of exactly n nodes: leaves L, if statements when useIf, loops
\* with the headers F
StmtsOfSize(L, useIf, F, n) ==
    IF n = 1 THEN L
    ELSE (IF useIf
          THEN UNION {{If(TestExpr, b, o) : b \in BodiesOfSize(L, useIf, F, k),
                                            o \in BodiesOfSize(L, useIf, F, n - 1 - k)}
                      : k \in 1..(n - 1)}
          ELSE {})
         \cup {[f EXCEPT !.body = b] : f \in F, b \in BodiesOfSize(L, useIf, F, n - 1)}

\* the statement lists of exactly n nodes
BodiesOfSize(L, useIf, F, n) ==
    IF n = 0 THEN {<<>>}
    ELSE UNION {{<<s>> \o rest : s \in StmtsOfSize(L, useIf, F, k),
                                 rest \in BodiesOfSize(L, useIf, F, n - k)}
                : k \in 1..n}

Bodies(L, useIf, F, n) == UNION {BodiesOfSize(L, useIf, F, k) : k \in 0..n}

\* a run-time value expression: a variable read, or (complex) a compound
Runtime(id, typ, complex) ==
    ExprNode("Name", id, FALSE,
             [op |-> "expr", id |-> id, typ |-> typ, complex |-> complex, is_pointer |-> FALSE])

\* an integer literal
Const(n, typ) == ExprNode("Int", "", FALSE, Literal(n, typ))

\* an iterable: a storage or memory array (a pointer) or a list literal
Iterable(id, typ, is_pointer, complex, raises) ==
    ExprNode("Name", id, raises,
             [op |-> "expr", id |-> id, typ |-> typ, complex |-> complex,
              is_pointer |-> is_pointer])

UintT == IntT(FALSE, WordBits)

\* loop headers of the generated bodies: two loops over i, one over j
LoopHeaders ==
    {ForRange("i", UintT, <<Const(MaxConst, UintT)>>, NoneExpr, <<>>),
     ForList("i", UintT, Iterable("xs", SArrayT(UintT, MaxCount), TRUE, FALSE, FALSE), <<>>),
     ForRange("j", UintT, <<Const(1, UintT)>>, NoneExpr, <<>>)}

Input(c, ensure, return_type, constancy) ==
    [code |-> c, ensure_terminated |-> ensure, return_type |-> return_type,
     constancy |-> constancy]

\* bodies of pass, return and if, lowered as function bodies and as plain lists
TerminationInputs ==
    {Input(c, e, t, "Mutable") :
        c \in Bodies({Pass, Return(NoneExpr)}, TRUE, {}, MaxNodes),
        e \in BOOLEAN, t \in {NoneT, UintT}}

\* nests of loops around pass
LoopInputs ==
    {Input(c, TRUE, NoneT, "Mutable") : c \in Bodies({Pass}, FALSE, LoopHeaders, MaxNodes)}

\* if statements and loops nested in each other
MixedInputs ==
    {Input(c, TRUE, t, "Mutable") :
        c \in Bodies({Pass, Return(NoneExpr)}, TRUE,
                     {ForRange("i", UintT, <<Const(1, UintT)>>, NoneExpr, <<>>)}, MaxNodes - 1),
        t \in {NoneT, UintT}}

\* the variables the operands of assignments refer to
StateWord == Variable("x", UintT, "storage")

MemoryWord == Variable("y", UintT, "memory")

StateArray == Variable("a", SArrayT(UintT, MaxCount), "storage")

MemoryArray == Variable("m", SArrayT(UintT, MaxCount), "memory")

Variables == {StateWord, MemoryWord, StateArray, MemoryArray}

\* a location to assign to, as Expr.parse_pointer_expr lowers it
Location(node, id, typ, refs, mutable, complex) ==
    Target(node, id,
           [op |-> "expr", id |-> id, typ |-> typ, referenced_variables |-> refs,
            mutable |-> mutable, complex |-> complex, is_pointer |-> TRUE])

\* a right-hand side, as Expr lowers it
Value(typ, refs, writes, call, raises) ==
    ExprNode("Call", "r", raises,
             [op |-> "expr", id |-> "r", typ |-> typ, referenced_variables |-> refs,
              variable_writes |-> writes, contains_writeable_call |-> call,
              complex |-> TRUE, is_pointer |-> FALSE])

ArrayT == SArrayT(UintT, MaxCount)

\* target op= value over every aliasing of target and value, and the malformed
\* shapes the handler rejects
AugAssigns ==
    {AugAssign(Location("Subscript", "t", UintT, refs, TRUE, complex), "add",
               Value(UintT, {}, writes, call, FALSE)) :
        refs \in SUBSET Variables \ {{}}, writes \in SUBSET Variables,
        call \in BOOLEAN, complex \in {FALSE}}
    \cup {AugAssign(Location("Attribute", "t", UintT, {StateWord}, TRUE, TRUE), "add",
                    Value(UintT, {}, {StateWord}, TRUE, FALSE)),
          AugAssign(Location("Attribute", "t", ArrayT, {StateArray}, TRUE, FALSE), "add",
                    Value(ArrayT, {}, {}, FALSE, FALSE)),
          AugAssign(Location("Attribute", "t", UintT, {StateWord}, FALSE, FALSE), "add",
                    Value(UintT, {}, {}, FALSE, FALSE)),
          AugAssign(Location("Attribute", "t", UintT, {StateWord}, TRUE, FALSE), "add",
                    Value(UintT, {}, {}, FALSE, TRUE))}

\* target = value over both type shapes and every sharing of variables
Assigns ==
    {Assign(Location("Subscript", "t", typ, refs, TRUE, FALSE),
            Value(typ, srcrefs, {}, FALSE, FALSE)) :
        typ \in {UintT, ArrayT}, refs \in SUBSET Variables \ {{}},
        srcrefs \in SUBSET Variables}
    \cup {Assign(Location("Name", "t", ArrayT, {MemoryArray}, FALSE, FALSE),
                 Value(ArrayT, {MemoryArray}, {}, FALSE, FALSE)),
          Assign(Location("Name", "t", ArrayT, {MemoryArray}, TRUE, FALSE),
                 Value(ArrayT, {MemoryArray}, {}, FALSE, TRUE))}
    \cup {Assign(Target("Tuple", "",
                    [op |-> "multi", typ |-> ArrayT, referenced_variables |-> {MemoryWord},
                     args |-> <<Location("Name", "u", UintT, {MemoryWord}, TRUE, FALSE).ir,
                                Location("Name", "v", UintT, {MemoryWord}, w, FALSE).ir>>]),
                 Value(ArrayT, {MemoryArray}, {}, FALSE, FALSE)) : w \in BOOLEAN}

\* a revert message
Message(raises) ==
    ExprNode("Str", "", raises,
             [op |-> "expr", id |-> "msg", typ |-> StringT(5), complex |-> FALSE,
              is_pointer |-> FALSE])

\* a message whose type takes more than one word of data
LongMessage ==
    ExprNode("Str", "", FALSE,
             [op |-> "expr", id |-> "msg", typ |-> StringT(33), complex |-> FALSE,
              is_pointer |-> FALSE])

Messages ==
    {NoneExpr, ExprNode("Name", "UNREACHABLE", FALSE, NoIR), Message(FALSE), Message(TRUE),
     LongMessage}

Reverts ==
    {AssertStmt([TestExpr EXCEPT !.raises = r], msg) : r \in BOOLEAN, msg \in Messages}
    \cup {RaiseStmt(exc) : exc \in Messages}

\* the statement kinds without operands worth varying
Others ==
    {Pass, Break, Continue, Name("vdb"), Name("x"), Unhandled("FunctionDef"),
     Unhandled("VariableDecl"), Return(NoneExpr), Return(Runtime("x", UintT, FALSE)),
     ExprStmt(Value(UintT, {}, {StateWord}, TRUE, FALSE), FALSE),
     ExprStmt(Value(UintT, {}, {}, FALSE, TRUE), FALSE),
     Log(<<Runtime("x", UintT, FALSE), Runtime("y", UintT, FALSE)>>, <<TRUE, FALSE>>),
     Log(<<Value(UintT, {}, {}, FALSE, TRUE)>>, <<FALSE>>),
     AnnAssign("z", UintT, Runtime("x", UintT, FALSE)),
     AnnAssign("z", UintT, Value(UintT, {}, {}, FALSE, TRUE))}

\* the integer types of loop variables
LoopTypes == {IntT(TRUE, WordBits), IntT(FALSE, WordBits), IntT(TRUE, WordBits - 1)}

\* int_bounds(signed, bits)
int_bounds(typ) ==
    IF typ.is_signed THEN (-(2 ^ (typ.bits - 1))) .. (2 ^ (typ.bits - 1) - 1)
    ELSE 0 .. (2 ^ typ.bits - 1)

Consts(typ) == {Const(n, typ) : n \in ((-MaxConst)..MaxConst) \cap int_bounds(typ)}

\* run-time endpoints: a variable read, a compound expression
Runtimes(id, typ) == {Runtime(id, typ, complex) : complex \in BOOLEAN}

\* range(end) and range(start, end) with literal endpoints
ExactRanges ==
    UNION {{ForRange("i", typ, args, NoneExpr, <<Pass>>) :
                args \in {<<e>> : e \in Consts(typ)}
                         \cup {<<b, e>> : b \in Consts(typ), e \in Consts(typ)}}
           : typ \in LoopTypes}

\* range(end, bound=n) and range(start, end, bound=n)
BoundedRanges ==
    UNION {{ForRange("i", typ, args, Const(n, typ), <<Pass>>) :
                args \in {<<e>> : e \in Runtimes("e", typ)}
                         \cup {<<b, e>> : b \in Runtimes("s", typ) \cup {Const(1, typ)},
                                          e \in Runtimes("e", typ) \cup {Const(MaxConst, typ)}},
                n \in 0..MaxConst}
           : typ \in LoopTypes}

\* loops over a sequence: static or dynamic, stored or literal
ListLoops ==
    {ForList("i", UintT, Iterable("xs", typ, is_pointer, complex, raises), <<Pass>>) :
        typ \in {SArrayT(UintT, MaxCount), DArrayT(UintT, MaxCount)},
        is_pointer \in BOOLEAN, complex \in BOOLEAN, raises \in BOOLEAN}

\* one statement of every kind as the whole body
LeafInputs ==
    {Input(<<stmt>>, TRUE, NoneT, "Mutable") :
        stmt \in AugAssigns \cup Assigns \cup Others \cup ExactRanges \cup BoundedRanges
                 \cup ListLoops}
    \cup {Input(<<stmt>>, TRUE, NoneT, k) : stmt \in Reverts, k \in Constancies}

\* statements that declare a variable or request scratch memory
ScopeLeaves ==
    {AnnAssign("z", UintT, Runtime("x", UintT, FALSE)),
     AnnAssign("w", UintT, Value(UintT, {}, {}, FALSE, TRUE)),
     Assign(Location("Name", "m", ArrayT, {MemoryArray}, TRUE, FALSE),
            Value(ArrayT, {MemoryArray}, {}, FALSE, FALSE)),
     RaiseStmt(Message(FALSE))}

\* ... nested in if statements and in loops over a list literal
ScopeInputs ==
    {Input(c, TRUE, NoneT, "Mutable") :
        c \in Bodies(ScopeLeaves, TRUE,
                     {ForList("k", UintT,
                              Iterable("xs", DArrayT(UintT, MaxCount), FALSE, FALSE, FALSE),
                              <<>>)},
                     MaxNodes - 1)}

\* id: typ = value over both type shapes and every set of variables the value
\* refers to; m names the memory array some of the values read
AnnAssigns ==
    {AnnAssign(id, typ, Value(typ, refs, {}, FALSE, FALSE)) :
        id \in {"n", "m"}, typ \in {UintT, ArrayT}, refs \in SUBSET Variables}

DeclInputs == {Input(<<stmt>>, TRUE, NoneT, "Mutable") : stmt \in AnnAssigns}

\* the loop variable i as a variable, and as the bare-name target of an assignment
LoopVariable == Variable("i", UintT, "memory")

LoopTarget == Location("Name", "i", UintT, {LoopVariable}, TRUE, FALSE)

\* i = value, i += value, i = a value that does not lower, i[..] = value
LoopLeaves ==
    {Assign(LoopTarget, Value(UintT, {}, {}, FALSE, FALSE)),
     AugAssign(LoopTarget, "add", Value(UintT, {}, {}, FALSE, FALSE)),
     Assign(LoopTarget, Value(UintT, {}, {}, FALSE, TRUE)),
     Assign(Location("Subscript", "i", UintT, {LoopVariable}, TRUE, FALSE),
            Value(UintT, {}, {}, FALSE, FALSE))}

\* ... in and after loops over i, nested loops over i among them
LoopAssignInputs ==
    {Input(c, TRUE, NoneT, "Mutable") :
        c \in Bodies(LoopLeaves, FALSE,
                     {ForRange("i", UintT, <<Const(1, UintT)>>, NoneExpr, <<>>),
                      ForList("i", UintT,
                              Iterable("xs", SArrayT(UintT, MaxCount), TRUE, FALSE, FALSE),
                              <<>>)},
                     MaxNodes)}

Inputs == TerminationInputs \cup LoopInputs \cup MixedInputs \cup LeafInputs \cup ScopeInputs
          \cup DeclInputs \cup LoopAssignInputs

----------------------------------------------------------------------------
(* Specification *)

Init ==
    \E inp \in Inputs :
        /\ code = inp.code
        /\ ensure_terminated = inp.ensure_terminated
        /\ context = NewContext(inp.return_type, inp.constancy)
        /\ entry = NewContext(inp.return_type, inp.constancy)
        /\ stack = <<BodyFrame(inp.code, inp.ensure_terminated)>>
        /\ ret = NoIR
        /\ fault = "none"

Next ==
    \/ parse_stmt
    \/ parse_body_return
    \/ parse_If_enter
    \/ parse_If_body
    \/ parse_If_orelse
    \/ parse_For_enter
    \/ parse_For_return
    \/ assert_reason_enter
    \/ assert_reason_return
    \/ propagate

Spec == Init /\ [][Next]_vars

----------------------------------------------------------------------------
(* What the properties speak about *)

\* lowering has returned its IR node
Done == stack = <<>> /\ fault = "none"

BodyFrames == {f \in {stack[k] : k \in 1..Len(stack)} : f.fn = "parse_body"}

StmtFrames == {f \in {stack[k] : k \in 1..Len(stack)} : f.fn = "Stmt"}

\* the pairs <<statement, its IR node>> lowered so far in the running bodies,
\* and in the outermost body once it has returned
Emitted ==
    UNION {{<<f.code[k], f.ir_node[k]>> : k \in 1..Len(f.ir_node)} : f \in BodyFrames}
    \cup (IF Done THEN {<<code[k], ret.args[k]>> : k \in 1..Len(code)} ELSE {})

\* the statement whose one-step handler has just raised
SimpleRaised ==
    /\ fault # "none" /\ stack # <<>>
    /\ Top.fn = "parse_body" /\ Top.i <= Len(Top.code)
    /\ IsSimple(NextStmt)

\* a parse_body call has just returned ret: to the handler on top, or as the result
JustReturned ==
    /\ fault = "none"
    /\ stack = <<>> \/ (Top.fn = "Stmt" /\ Top.pc \in {"body", "orelse", "loop"})

\* the statement list that call lowered, and whether it was a function body
ReturnedCode ==
    IF stack = <<>> THEN code
    ELSE IF Top.pc = "orelse" THEN Top.stmt.orelse ELSE Top.stmt.body

ReturnedEnsure == stack = <<>> /\ ensure_terminated

BareReturnIR == IRnode("exit_to", <<NoIR>>)

PassIR == IRnode("pass", <<>>)

RECURSIVE EndsTerminated(_)
\* the sequence ends in a terminus, or in an if/else whose branches both do
EndsTerminated(c) ==
    /\ c # <<>>
    /\ LET last == c[Len(c)]
       IN \/ last.is_terminus
          \/ /\ last.kind = "If"
             /\ EndsTerminated(last.body)
             /\ EndsTerminated(last.orelse)

\* the operator tags a statement of each kind may lower to
Heads(stmt) ==
    CASE stmt.kind = "Pass" -> {"pass"}
      [] stmt.kind = "Break" -> {"break"}
      [] stmt.kind = "Continue" -> {"continue"}
      [] stmt.kind = "Return" -> {"exit_to"}
      [] stmt.kind = "Name" -> {"debugger"}
      [] stmt.kind = "If" -> {"if"}
      [] stmt.kind = "For" -> {"repeat", "seq", "with"}
      [] stmt.kind = "Log" -> {"log"}
      [] stmt.kind = "Expr" -> {"expr"}
      [] stmt.kind = "AnnAssign" -> {"make_setter"}
      [] stmt.kind = "Assign" -> {"seq"}
      [] stmt.kind = "AugAssign" -> {"store", "with"}
      [] stmt.kind = "Assert" -> {"assert", "assert_unreachable", "if"}
      [] stmt.kind = "Raise" -> {"revert", "invalid", "with"}
      [] OTHER -> {}

----------------------------------------------------------------------------
(* Properties *)

\* number of nodes ret holds beyond one per statement and the closing pass
Injected == Len(ret.args) - Len(code) - 1

\* C1: a function body lowered by parse_body gets exactly one implicit bare
\* return appended after its statements if and only if the function declares
\* no return value and the body is not terminated; a terminated body gets
\* none, and never more than one is appended.
C1_ImplicitReturnIffVoidAndUnterminated ==
    (Done /\ ensure_terminated) =>
        /\ Injected = IF entry.return_type = NoneT /\ ~EndsTerminated(code) THEN 1 ELSE 0
        /\ Injected = 1 => ret.args[Len(code) + 1] = BareReturnIR
        /\ \A k \in 1..Len(code) : ret.args[k].op \in Heads(code[k])

\* a void function body ending in an if/else of which only one branch returns
\* has been lowered and has received its return
C1_Witness ==
    /\ Done /\ ensure_terminated /\ entry.return_type = NoneT
    /\ code # <<>>
    /\ code[Len(code)].kind = "If"
    /\ code[Len(code)].orelse # <<>>
    /\ EndsTerminated(code[Len(code)].body)
    /\ ~EndsTerminated(code)
    /\ Injected = 1

\* C4 (as claimed): while the body of a for loop is lowered its variable's name
\* is in context.forvars at every point, also after a nested loop over the same
\* name; and no name stays in the set once its loop is lowered.
C4_LoopVariableRegisteredThroughoutBody ==
    fault = "none" =>
        /\ \A f \in StmtFrames :
              (f.stmt.kind = "For" /\ f.pc = "loop") => f.stmt.target.id \in context.forvars
        /\ \A id \in context.forvars :
              \E f \in StmtFrames :
                  f.stmt.kind = "For" /\ f.pc = "loop" /\ f.stmt.target.id = id

\* a statement kind without a lowering rule
NoLoweringRule(stmt) ==
    \/ stmt.kind = "Name" /\ stmt.id # "vdb"
    \/ stmt.kind \notin Handlers

\* C6 (as claimed): a statement of a supported kind lowers to exactly one IR
\* node, and a statement without a lowering rule (a bare name other than vdb, or
\* any kind the dispatcher has no handler for) fails with StructureException and
\* yields no IR node.
C6_NoLoweringRuleIsStructureException ==
    /\ \A p \in Emitted : ~NoLoweringRule(p[1]) /\ p[2].op \in Heads(p[1])
    /\ (SimpleRaised /\ NoLoweringRule(NextStmt)) => fault = "StructureException"

\* C7 (as claimed): the body of a function that declares a return value and is
\* not terminated on every path makes lowering fail with an internal fault; it
\* is never patched with a return and never lowered successfully.
C7_UnterminatedValueBodyFaults ==
    (/\ stack = <<>>
     /\ ensure_terminated
     /\ entry.return_type # NoneT
     /\ code # <<>>
     /\ ~EndsTerminated(code))
        => fault \in {"TypeCheckFailure", "CodegenPanic"}

\* C8: every IR node parse_body returns, for a function body, an if branch or a
\* loop body, empty or not, with or without an injected return, is a seq whose
\* last child is pass, preceded by the statements' IR nodes in source order.
C8_BodyIsSeqEndingInPass ==
    /\ ret # NoIR =>
          /\ ret.op = "seq"
          /\ ret.args # <<>>
          /\ ret.args[Len(ret.args)] = PassIR
    /\ JustReturned =>
          LET n == Len(ReturnedCode)
          IN /\ Len(ret.args) \in {n + 1, n + 2}
             /\ \A k \in 1..n : ret.args[k].op \in Heads(ReturnedCode[k])
             /\ Len(ret.args) = n + 2 => ReturnedEnsure /\ ret.args[n + 1] = BareReturnIR

\* an if branch of two statements has been lowered and returned to parse_If
C8_Witness ==
    /\ JustReturned
    /\ stack # <<>>
    /\ Top.stmt.kind = "If" /\ Top.pc = "orelse"
    /\ Len(ReturnedCode) = 2
    /\ ret.args = <<PassIR, BareReturnIR, PassIR>>

\* a compound assignment the handler is meant for: a writable single-word
\* target that is no loop variable, operands that lower
WellFormedAug(stmt) ==
    /\ stmt.kind = "AugAssign"
    /\ stmt.target.ir.typ._is_prim_word
    /\ stmt.target.ir.mutable
    /\ ~stmt.target.raises /\ ~stmt.value.raises
    /\ ~(stmt.target.node = "Name" /\ stmt.target.id \in context.forvars)

\* some state variable the target refers to is written by the right side, or
\* the target refers to a state variable and the right side may call out
StateAliased(stmt) ==
    LET refs == stmt.target.ir.referenced_variables
        right == stmt.value.ir
    IN \/ \E v \in refs : v.location = "storage" /\ v \in right.variable_writes
       \/ (\E v \in refs : v.location = "storage") /\ right.contains_writeable_call

\* the same, counting only the variables that are not a single word
ContainerAliased(stmt) ==
    LET refs == {v \in stmt.target.ir.referenced_variables : ~v.typ._is_prim_word}
        right == stmt.value.ir
    IN \/ \E v \in refs : v \in right.variable_writes
       \/ (\E v \in refs : v.location = "storage") /\ right.contains_writeable_call

MayOverlap(dst, src) ==
    /\ ~dst.typ._is_prim_word
    /\ dst.referenced_variables \cap src.referenced_variables # {}

\* C3: plain assignment whose sides may overlap first copies the right side
\* into a fresh temporary, distinct from the target's storage, and then copies
\* the temporary into the target; when no overlap is possible, as for every
\* single-word assignment, the IR is one direct copy and no temporary is
\* allocated.
C3_OverlapIsStaged ==
    /\ \A p \in Emitted :
          p[1].kind = "Assign" =>
              LET dst == p[1].target.ir
                  src == p[1].value.ir
                  tmp == p[2].args[1].args[1]
              IN IF MayOverlap(dst, src)
                 THEN /\ p[2].args = <<make_setter(tmp, src), make_setter(dst, tmp)>>
                      /\ tmp.op = "var"
                      /\ tmp.name[1] = "#internal"
                      /\ tmp.name[2] >= entry.internal_ctr
                      /\ tmp.typ = src.typ
                      /\ \A v \in dst.referenced_variables \cup src.referenced_variables :
                            v.name # tmp.name
                 ELSE p[2].args = <<make_setter(dst, src)>>
    /\ (Done /\ Len(code) = 1 /\ code[1].kind = "Assign") =>
          context.internal_ctr - entry.internal_ctr
              = IF MayOverlap(code[1].target.ir, code[1].value.ir) THEN 1 ELSE 0

\* an array assignment whose sides share a variable has been staged
C3_Witness ==
    /\ Done
    /\ \E p \in Emitted :
          /\ p[1].kind = "Assign"
          /\ MayOverlap(p[1].target.ir, p[1].value.ir)
          /\ Len(p[2].args) = 2
          /\ context.internal_ctr = entry.internal_ctr + 1

\* the frames in which _assert_reason is lowering its message
MsgFrames == {f \in StmtFrames : f.pc = "msg"}

\* C5: _assert_reason forces the constant-evaluation flag to Constant only
\* while it lowers a message; once it has returned or faulted the flag is what
\* it was before the call, whatever that was and whether or not the message
\* lowered.
C5_ConstancyRestored ==
    IF MsgFrames # {}
    THEN /\ context.constancy = "Constant"
         /\ \A f \in MsgFrames : f.saved.tmp = entry.constancy
    ELSE context.constancy = entry.constancy

\* a message has failed to lower under a mutable function, and the flag is back
C5_Witness ==
    /\ fault # "none"
    /\ stack # <<>>
    /\ Top.fn = "Stmt" /\ Top.pc = "raised"
    /\ entry.constancy = "Mutable"
    /\ context.constancy = "Mutable"

IsRange(stmt) == stmt.kind = "For" /\ stmt.iter.func = "range"

HasBound(stmt) == stmt.iter.bound.node # "None"

\* the endpoints as written: start is 0 in the one-argument form
StartArg(stmt) ==
    IF Len(stmt.iter.args) = 1 THEN Literal(0, stmt.target.type) ELSE stmt.iter.args[1].ir

EndArg(stmt) == stmt.iter.args[Len(stmt.iter.args)].ir

\* the bound the loop declares: the bound keyword, or end - start
DeclaredBound(stmt) ==
    IF HasBound(stmt) THEN stmt.iter.bound.ir.val ELSE EndArg(stmt).val - StartArg(stmt).val

\* the endpoints and the bound lower, and have the loop variable's type
RangeLowers(stmt) ==
    /\ \A k \in 1..Len(stmt.iter.args) : ~stmt.iter.args[k].raises
    /\ HasBound(stmt) => ~stmt.iter.bound.raises
    /\ StartArg(stmt).typ = stmt.target.type /\ EndArg(stmt).typ = stmt.target.type

\* the repeat node of a lowered range loop, under the binding of a cached start
RepeatOf(ir) == IF ir.op = "with" THEN ir.args[3] ELSE ir

\* the loop frames below the top of the stack with the same loop variable
Enclosing(id) ==
    {k \in 1..(Len(stack) - 1) :
        /\ stack[k].fn = "Stmt" /\ stack[k].stmt.kind = "For" /\ stack[k].pc = "loop"
        /\ stack[k].stmt.target.id = id}

\* C9: a range loop without bound keyword and with constant endpoints lowers to
\* a repeat whose round count and declared bound both equal end - start (start
\* is 0 in the one-argument form); in either form a declared bound below 1
\* faults with TypeCheckFailure, and does so before the loop variable is
\* declared in the loop's scope or registered among the loop variables, so no
\* such loop is ever entered or emitted.
C9_ExactRoundsAndBoundChecked ==
    /\ \A p \in Emitted :
          (IsRange(p[1]) /\ ~HasBound(p[1])) =>
              LET n == EndArg(p[1]).val - StartArg(p[1]).val
              IN /\ RepeatOf(p[2]).op = "repeat"
                 /\ RepeatOf(p[2]).args[3] = IRint(n)
                 /\ RepeatOf(p[2]).args[4] = IRint(n)
    /\ \A p \in Emitted : IsRange(p[1]) => DeclaredBound(p[1]) >= 1
    /\ \A f \in StmtFrames : (IsRange(f.stmt) /\ f.pc = "loop") => DeclaredBound(f.stmt) >= 1
    /\ (/\ fault # "none" /\ stack # <<>>
        /\ Top.fn = "Stmt" /\ IsRange(Top.stmt) /\ Top.pc = "head"
        /\ RangeLowers(Top.stmt) /\ DeclaredBound(Top.stmt) < 1) =>
          /\ fault = "TypeCheckFailure"
          /\ \A k \in 1..Len(context.vars) :
                context.vars[k].name = VarName(Top.stmt.target.id) =>
                    context.scopes[Len(context.scopes)] \notin context.vars[k].blockscopes
          /\ Top.stmt.target.id \in context.forvars => Enclosing(Top.stmt.target.id) # {}
          /\ context.fresh_ctr = entry.fresh_ctr \/ Len(stack) > 2

\* range(start, end) with a non-zero constant start has been lowered
C9_Witness ==
    /\ Done
    /\ \E p \in Emitted :
          /\ IsRange(p[1]) /\ ~HasBound(p[1])
          /\ Len(p[1].iter.args) = 2
          /\ StartArg(p[1]).val # 0
          /\ RepeatOf(p[2]).args[3] = IRint(EndArg(p[1]).val - StartArg(p[1]).val)

\* Run-time meaning of the round count.  Values are machine words of WordBits
\* bits; Revert stands for the failed run-time check.
Revert == 0 - 1

Word == 2 ^ WordBits

ToWord(v) == v % Word

\* the two's-complement reading of a word
Signed(w) == IF w >= Word \div 2 THEN w - Word ELSE w

RECURSIVE Eval(_, _)
\* the word the IR node e leaves on the stack under the bindings env
Eval(e, env) ==
    CASE e.op = "int" -> ToWord(e.val)
      [] e.op \in {"expr", "ref"} -> env[e.id]
      [] e.op = "with" ->
            LET v == Eval(e.args[2], env)
            IN IF v = Revert THEN Revert
               ELSE Eval(e.args[3], [env EXCEPT ![e.args[1].id] = v])
      [] e.op = "sub" ->
            LET a == Eval(e.args[1], env)
                b == Eval(e.args[2], env)
            IN IF a = Revert \/ b = Revert THEN Revert ELSE ToWord(a - b)
      [] e.op = "clamp" ->
            LET a == Eval(e.args[1], env)
                h == Eval(e.args[2], env)
            IN IF a = Revert \/ h = Revert THEN Revert
               ELSE IF e.cmp = "sle" /\ Signed(a) <= Signed(h) THEN a
               ELSE IF e.cmp = "le" /\ a <= h THEN a
               ELSE Revert

\* the round count of a lowered range loop, under the binding of a cached start
RoundsOf(ir) ==
    IF ir.op = "with" THEN IRnode("with", <<ir.args[1], ir.args[2], ir.args[3].args[3]>>)
    ELSE ir.args[3]

\* the run-time values s and e of the endpoints read as variables
Env(s, e) == [id \in {"s", "e", "start", "end"} |-> IF id = "s" THEN ToWord(s) ELSE ToWord(e)]

\* the value of an endpoint: its literal, or the variable's
ValueOf(arg, v) == IF arg.op = "int" THEN arg.val ELSE v

\* C10: a range loop with a bound keyword lowers to a repeat whose declared
\* bound is exactly the keyword's value and whose round count is end minus the
\* clamped start: for all run-time values of the endpoints in the loop's
\* integer type, compared signed for a signed type and unsigned otherwise, the
\* count reaches repeat exactly when start <= end, and is then end - start,
\* which is not negative.
C10_BoundedRoundsNonNegative ==
    \A p \in Emitted :
        (IsRange(p[1]) /\ HasBound(p[1])) =>
            /\ RepeatOf(p[2]).op = "repeat"
            /\ RepeatOf(p[2]).args[4] = IRint(p[1].iter.bound.ir.val)
            /\ \A s \in int_bounds(p[1].target.type), e \in int_bounds(p[1].target.type) :
                  LET rounds == Eval(RoundsOf(p[2]), Env(s, e))
                      start == ValueOf(StartArg(p[1]), s)
                      end == ValueOf(EndArg(p[1]), e)
                  IN IF start <= end
                     THEN rounds = end - start /\ rounds >= 0
                     ELSE rounds = Revert

\* range(s, e, bound=n) over a signed type with run-time endpoints that need
\* caching has been lowered
C10_Witness ==
    /\ Done
    /\ \E p \in Emitted :
          /\ IsRange(p[1]) /\ HasBound(p[1])
          /\ p[1].target.type.is_signed
          /\ Len(p[1].iter.args) = 2
          /\ is_complex_ir(StartArg(p[1])) /\ is_complex_ir(EndArg(p[1]))
          /\ Eval(RoundsOf(p[2]), Env(0 - 1, 1)) = 2
          /\ Eval(RoundsOf(p[2]), Env(1, 0 - 1)) = Revert

IsListLoop(stmt) == stmt.kind = "For" /\ stmt.iter.func # "range"

\* the seq node of a lowered sequence loop, under the binding of a cached iterable
ListSeqOf(ir) == IF ir.op = "with" THEN ir.args[3] ELSE ir

\* its repeat node
ListRepeatOf(ir) == ListSeqOf(ir).args[Len(ListSeqOf(ir).args)]

\* the rounds a round-count node yields when the stored length is len
LiveRounds(rounds, len) == IF rounds.op = "dyn_array_count" THEN len ELSE rounds.val

\* C11: a sequence loop lowers to a repeat whose declared bound is the
\* iterable type's static capacity and whose round count is the stored length
\* of the iterated array when the type is a dynamic array and the capacity
\* otherwise, so the rounds never exceed the bound while the stored length
\* respects the capacity; an iterable that is no addressable location is
\* first copied into a fresh temporary, which is the array iterated.
C11_ListRoundsWithinCapacity ==
    \A p \in Emitted :
        IsListLoop(p[1]) =>
            LET it == p[1].iter.value.ir
                sq == ListSeqOf(p[2])
                rep == ListRepeatOf(p[2])
                iterated == rep.args[5].args[1].args[2].args[1]
                tmp == sq.args[1].args[1]
            IN /\ sq.op = "seq" /\ rep.op = "repeat"
               /\ rep.args[4] = IRint(it.typ.count)
               /\ rep.args[3] = IF it.typ.name = "DArray"
                                THEN get_dyn_array_count(iterated)
                                ELSE IRint(it.typ.count)
               /\ \A len \in 0..it.typ.count : LiveRounds(rep.args[3], len) <= rep.args[4].val
               /\ IF it.is_pointer
                  THEN /\ sq.args = <<rep>>
                       /\ iterated = cached(it, "list_iter")
                  ELSE /\ sq.args = <<make_setter(tmp, it), rep>>
                       /\ tmp.op = "var" /\ tmp.name[1] = "#internal"
                       /\ tmp.name[2] >= entry.internal_ctr
                       /\ tmp.typ = it.typ
                       /\ iterated = tmp

\* a dynamic array that is no location has been iterated through a copy
C11_Witness ==
    /\ Done
    /\ \E p \in Emitted :
          /\ IsListLoop(p[1])
          /\ p[1].iter.value.ir.typ.name = "DArray"
          /\ ~p[1].iter.value.ir.is_pointer
          /\ ListRepeatOf(p[2]).args[3].op = "dyn_array_count"
          /\ Len(ListSeqOf(p[2]).args) = 2

\* an assert or a raise whose message is the name UNREACHABLE
IsSentinel(stmt) ==
    \/ stmt.kind = "Assert" /\ is_unreachable(stmt.msg)
    \/ stmt.kind = "Raise" /\ is_unreachable(stmt.exc)

\* C12: lowering an assert or a raise whose message is UNREACHABLE is one step
\* that leaves the constant-evaluation flag, the internal-variable counter and
\* the bound variables as they were and pushes no frame for the reason encoder;
\* raise UNREACHABLE lowers to invalid, not to a revert, and
\* assert cond, UNREACHABLE lowers to assert_unreachable applied to the
\* lowered condition.
C12_SentinelBypassesEncoder ==
    [][(AtStmt /\ IsSentinel(NextStmt)) =>
          /\ context'.constancy = context.constancy
          /\ context'.internal_ctr = context.internal_ctr
          /\ context'.vars = context.vars
          /\ Len(stack') = Len(stack)
          /\ fault' = "none" =>
                LET ir == stack'[Len(stack')].ir_node[Top.i]
                IN /\ context'.scopes = context.scopes
                   /\ stack'[Len(stack')].i = Top.i + 1
                   /\ ir = IF NextStmt.kind = "Raise"
                           THEN IRnode("invalid", <<>>)
                           ELSE IRnode("assert_unreachable", <<NextStmt.test.ir>>)
          /\ fault' # "none" => NextStmt.kind = "Assert" /\ NextStmt.test.raises
      ]_vars

\* assert cond, UNREACHABLE has been lowered under a mutable function
C12_Witness ==
    /\ Done
    /\ entry.constancy = "Mutable"
    /\ \E p \in Emitted :
          /\ p[1].kind = "Assert" /\ is_unreachable(p[1].msg)
          /\ p[2].op = "assert_unreachable"

\* the innermost open scope
Innermost(ctx) == ctx.scopes[Len(ctx.scopes)]

\* the variables bound in ctx that were declared under the scope id
BoundUnder(ctx, id) == {k \in 1..Len(ctx.vars) : id \in ctx.vars[k].blockscopes}

\* the scopes an activation holds open: a statement its temporary-memory
\* scope, an if or a loop a block scope as well
ScopesOf(frame) ==
    IF frame.fn # "Stmt" THEN 0 ELSE IF frame.stmt.kind \in {"If", "For"} THEN 2 ELSE 1

RECURSIVE ScopesHeld(_)
ScopesHeld(stk) ==
    IF stk = <<>> THEN 0 ELSE ScopesOf(stk[Len(stk)]) + ScopesHeld(SubSeq(stk, 1, Len(stk) - 1))

\* an if statement is waiting for the branch named by pc
IfAt(pc) == stack # <<>> /\ Top.fn = "Stmt" /\ Top.stmt.kind = "If" /\ Top.pc = pc

\* C13: each branch of an if is lowered in a block scope of its own.  The scope
\* entered for the then-branch is new; when the then-branch is done its scope is
\* left and nothing declared under it stays bound, and the else-branch starts
\* in another new scope under which nothing is bound; when the if is done, or
\* a fault leaves it, both scopes are closed and nothing declared under them
\* stays bound.  At every moment the open scopes are exactly those of the
\* activations on the stack, so the depth after an if, faulted or not, is the
\* depth before it.
C13_BranchesInOwnScope ==
    /\ [](Len(context.scopes) = ScopesHeld(stack))
    /\ [][/\ (AtStmt /\ NextStmt.kind = "If") =>
                /\ Len(context'.scopes) = Len(context.scopes) + 2
                /\ BoundUnder(context', Innermost(context')) = {}
          /\ (Running /\ IfAt("body")) =>
                /\ BoundUnder(context', Innermost(context)) = {}
                /\ Top.stmt.orelse # <<>> =>
                      /\ Len(context'.scopes) = Len(context.scopes)
                      /\ Innermost(context') # Innermost(context)
                      /\ BoundUnder(context', Innermost(context')) = {}
                /\ Top.stmt.orelse = <<>> =>
                      Len(context'.scopes) = Len(context.scopes) - 2
          /\ (Running /\ IfAt("orelse")) =>
                /\ BoundUnder(context', Innermost(context)) = {}
                /\ Len(context'.scopes) = Len(context.scopes) - 2
          /\ (fault # "none" /\ (IfAt("test") \/ IfAt("body") \/ IfAt("orelse"))) =>
                /\ BoundUnder(context', Innermost(context)) = {}
                /\ Len(context'.scopes) = Len(context.scopes) - 2
       ]_vars

\* the else-branch is being lowered after a then-branch that declared a
\* variable, and the variable is not bound
C13_Witness ==
    /\ fault = "none"
    /\ \E k \in 1..Len(stack) :
          /\ stack[k].fn = "Stmt" /\ stack[k].stmt.kind = "If" /\ stack[k].pc = "orelse"
          /\ \E j \in 1..Len(stack[k].stmt.body) : stack[k].stmt.body[j].kind = "AnnAssign"
    /\ context.vars = <<>>

\* the live temporary allocations: the internal variables bound in ctx
Internals(ctx) == {ctx.vars[k] : k \in {j \in 1..Len(ctx.vars) : ctx.vars[j].is_internal}}

\* the temporary-memory scope of the k-th activation, a statement's
MemoryScopeOf(k) == context.scopes[ScopesHeld(SubSeq(stack, 1, k - 1)) + 1]

\* the statements being lowered whose temporary-memory scope v was allocated under
Owners(v) ==
    {k \in 1..Len(stack) : stack[k].fn = "Stmt" /\ MemoryScopeOf(k) \in v.blockscopes}

\* C14: every statement is lowered in a temporary-memory scope of its own.  A
\* live temporary always belongs to the scope of a statement that is still being
\* lowered, so none is live once lowering has returned or faulted out; and the
\* lowering of a statement that is one step (staged assignments and sentinel
\* or plain reverts among them) leaves the live temporaries exactly as they
\* were, as does the return of a revert with a reason, of an if and of a loop
\* with respect to the temporaries of the statements around them.
C14_ScratchReleasedPerStatement ==
    /\ [](\A v \in Internals(context) : Owners(v) # {})
    /\ [](stack = <<>> => Internals(context) = Internals(entry))
    /\ [][/\ (AtStmt /\ IsSimple(NextStmt)) => Internals(context') = Internals(context)
          /\ (Running /\ stack # <<>> /\ Top.fn = "Stmt" /\ Len(stack') < Len(stack)) =>
                Internals(context') =
                    {v \in Internals(context) : MemoryScopeOf(Len(stack)) \notin v.blockscopes}
          /\ (fault # "none" /\ stack # <<>> /\ Top.fn = "Stmt") =>
                Internals(context') =
                    {v \in Internals(context) : MemoryScopeOf(Len(stack)) \notin v.blockscopes}
       ]_vars

\* a loop over a copied list literal holds its copy while a statement of its
\* body, which staged an assignment, has released its own temporary
C14_Witness ==
    /\ fault = "none"
    /\ Len(stack) >= 3
    /\ Top.fn = "parse_body" /\ Top.i = 2
    /\ Top.code[1].kind = "Assign"
    /\ Len(Top.ir_node[1].args) = 2
    /\ stack[Len(stack) - 1].stmt.kind = "For"
    /\ Cardinality(Internals(context)) = 1
    /\ context.internal_ctr = 2

\* the statement lists lowering has been handed: the function body and the
\* nested bodies under way
Lists == {code} \cup {f.code : f \in BodyFrames}

\* C15: for a statement list that is not empty, _is_terminated is true exactly
\* when the last statement is a terminus, or is an if with an else-branch
\* whose two branches are both terminated in the same sense; it is false when
\* the last statement is an if without else, a loop, or any other statement
\* that is no terminus.
C15_IsTerminatedExact ==
    \A c \in Lists :
        c # <<>> =>
            LET last == c[Len(c)]
            IN /\ _is_terminated(c) = EndsTerminated(c)
               /\ last.is_terminus => _is_terminated(c)
               /\ (last.kind = "If" /\ last.orelse = <<>>) => ~_is_terminated(c)
               /\ (last.kind = "If" /\ last.orelse # <<>> /\ ~last.is_terminus) =>
                     _is_terminated(c) = (_is_terminated(last.body) /\ _is_terminated(last.orelse))
               /\ (last.kind # "If" /\ ~last.is_terminus) => ~_is_terminated(c)

\* a function body ending in an if whose then-branch returns and whose
\* else-branch does not has been lowered, and the return was injected
C15_Witness ==
    /\ Done /\ ensure_terminated /\ entry.return_type = NoneT
    /\ code # <<>>
    /\ code[Len(code)].kind = "If"
    /\ code[Len(code)].orelse # <<>>
    /\ _is_terminated(code[Len(code)].body)
    /\ ~_is_terminated(code[Len(code)].orelse)
    /\ ret.args[Len(code) + 1] = BareReturnIR

\* the revert sequence of a lowered assert or raise with a reason
RevertSeqOf(stmt, ir) == IF stmt.kind = "Raise" THEN ir ELSE ir.args[2]

\* the offset of a pointer from the start of the buffer it points into
OffsetOf(ptr) == IF ptr.op = "add" THEN ptr.args[2].val ELSE 0

\* the buffer a pointer points into
BaseOf(ptr) == IF ptr.op = "add" THEN ptr.args[1] ELSE ptr

\* the message of an assert or a raise
MessageOf(stmt) == IF stmt.kind = "Raise" THEN stmt.exc ELSE stmt.msg

\* C16: an assert or raise with a message other than UNREACHABLE lowers to a
\* revert sequence over one temporary buffer B of S = 64 + the wrapped
\* message's memory size bytes.  The sequence first binds the length L left by
\* the ABI encoder, which writes at B+32 with a budget of S-32 bytes, then
\* stores the Error(string) selector word at B and reverts with the region
\* that starts at B+28 and spans 4+L bytes.  The selector word [B, B+32) and
\* the payload [B+32, B+32+L) do not overlap, and for every L <= S-32 the
\* region lies within [B, B+S).  For assert the sequence is the body of
\* if iszero(condition); for raise it is the whole IR.
C16_RevertBufferLayout ==
    \A p \in Emitted :
        HasReason(p[1]) =>
            LET rs == RevertSeqOf(p[1], p[2])
                enc == rs.args[2]
                body == rs.args[3]
                store == body.args[1]
                rev == body.args[2]
                B == store.args[1]
                S == B.typ.memory_bytes_required
            IN /\ IF p[1].kind = "Raise" THEN p[2].op = "with"
                  ELSE /\ p[2].op = "if"
                       /\ p[2].args[1] = IRnode("iszero", <<p[1].test.ir>>)
                       /\ Len(p[2].args) = 2
               /\ rs.op = "with" /\ rs.args[1].op = "ref"
               /\ B.op = "var" /\ B.name[1] = "#internal"
               /\ S = 64 + (32 + ceil32(MessageOf(p[1]).ir.typ.maxlen))
               /\ enc.op = "abi_encode"
               /\ BaseOf(enc.args[1]) = B /\ OffsetOf(enc.args[1]) = 32
               /\ enc.args[2].args = <<MessageOf(p[1]).ir>>
               /\ enc.bufsz = S - 32
               /\ body.op = "seq" /\ Len(body.args) = 2
               /\ store = IRnode("mstore", <<B, IRint(method_id_Error_string)>>)
               /\ method_id_Error_string \div (2 ^ 16) < 2 ^ 16
               /\ rev.op = "revert"
               /\ BaseOf(rev.args[1]) = B /\ OffsetOf(rev.args[1]) = 28
               /\ rev.args[2] = IRnode("add", <<IRint(4), rs.args[1]>>)
               /\ \A L \in 0..(S - 32) :
                     LET payload == (OffsetOf(enc.args[1])) .. (OffsetOf(enc.args[1]) + L - 1)
                         selector == 0 .. 31
                         region == (OffsetOf(rev.args[1])) .. (OffsetOf(rev.args[1]) + 4 + L - 1)
                     IN /\ selector \cap payload = {}
                        /\ region \subseteq 0 .. (S - 1)
                        /\ region = (28 .. 31) \cup payload

\* an assert with a message longer than a word has been lowered
C16_Witness ==
    /\ Done
    /\ \E p \in Emitted :
          /\ p[1].kind = "Assert" /\ HasReason(p[1])
          /\ p[1].msg.ir.typ.maxlen = 33
          /\ p[2].op = "if"
          /\ p[2].args[2].args[2].bufsz = 128

\* the variable a declaration declares, and its location
DeclVar(stmt) == Variable(stmt.target.id, stmt.target.type, "memory")

DeclPtr(stmt) == VarPtr(VarName(stmt.target.id), stmt.target.type)

\* a declaration with a value that lowers and says which variables it reads
IsDecl(stmt) ==
    /\ stmt.kind = "AnnAssign"
    /\ "referenced_variables" \in DOMAIN stmt.value.ir

\* overlap between the declared variable and the value is possible
DeclOverlap(stmt) ==
    /\ ~stmt.target.type._is_prim_word
    /\ DeclVar(stmt) \in stmt.value.ir.referenced_variables

\* the copies a statement's IR makes, in order
CopiesOf(ir) == IF ir.op = "seq" THEN ir.args ELSE <<ir>>

AssignsToName(stmt) == stmt.kind \in {"Assign", "AugAssign"} /\ stmt.target.node = "Name"

\* the names of the loops whose body is being lowered
LoopNames ==
    {stack[k].stmt.target.id :
        k \in {j \in 1..Len(stack) :
                  stack[j].fn = "Stmt" /\ stack[j].stmt.kind = "For" /\ stack[j].pc = "loop"}}

\* C18: while lowering has not faulted, the names in context.forvars are the
\* names of the loops whose body is being lowered.  Lowering a plain or compound assignment whose target is the bare
\* name of such a variable always faults and appends no IR: with
\* TypeCheckFailure, raised by _get_target before the target is lowered (for a
\* plain assignment the value is lowered first, and its fault comes first if
\* it has one).  Once no loop registers the name, the same assignment lowers
\* to a store to the target.
C18_LoopVariableNotAssignable ==
    /\ [](fault = "none" => context.forvars \subseteq LoopNames)
    /\ [][/\ (AtStmt /\ AssignsToName(NextStmt) /\ NextStmt.target.id \in context.forvars) =>
                /\ fault' # "none"
                /\ stack' = stack
                /\ (NextStmt.kind = "AugAssign" \/ ~NextStmt.value.raises) =>
                      fault' = "TypeCheckFailure"
          /\ (/\ AtStmt /\ AssignsToName(NextStmt) /\ NextStmt.target.id \notin context.forvars
              /\ NextStmt.target.ir.mutable /\ NextStmt.target.ir.typ._is_prim_word
              /\ ~NextStmt.target.raises /\ ~NextStmt.value.raises
              /\ NextStmt.target.ir.referenced_variables = {LoopVariable}) =>
                /\ fault' = "none"
                /\ LET ir == stack'[Len(stack')].ir_node[Top.i]
                   IN IF NextStmt.kind = "Assign"
                      THEN ir.args = <<make_setter(NextStmt.target.ir, NextStmt.value.ir)>>
                      ELSE ir.op = "store" /\ ir.args[1] = NextStmt.target.ir
       ]_vars

\* i += value in the body of a loop over i has faulted and nothing was appended
C18_Witness ==
    /\ fault = "TypeCheckFailure"
    /\ Len(stack) >= 3
    /\ Top.fn = "parse_body" /\ Top.i <= Len(Top.code)
    /\ NextStmt.kind = "AugAssign" /\ NextStmt.target.node = "Name"
    /\ NextStmt.target.id \in context.forvars
    /\ NextStmt.target.id \in LoopNames
    /\ Len(Top.ir_node) = Top.i - 1

====
